---- MODULE Spec2Model ----
(***************************************************************************)
(* Model of migrate-console-to-logger.py: the import inserter              *)
(* (add_logger_import), the pattern rewriter (migrate_console_statements), *)
(* the per-file processor (process_file) and the driver (main).            *)
(*                                                                         *)
(* A text is a sequence of tokens.  A token is a string standing for       *)
(* exactly the characters it spells, except the bracketed names, which     *)
(* stand for one character sequence each:                                  *)
(*   "[x]" "[ok]" ... "[lock]"  the eleven emoji of the source's list      *)
(*   "[wrap]"   "instanceof Error ? error : new Error(String(error))"      *)
(*   "[nl]" "[cr]" "[tab]" "[bt]"   line feed, carriage return, tab,       *)
(*              backtick                                                   *)
(* No token but Q holds a single quote, none but BT a backtick, none but   *)
(* ")" and "[wrap]" a closing parenthesis.  Every token of more than one   *)
(* character begins and ends with a character that is no space, and none   *)
(* but "..." holds a run of dots, so no literal of a pattern of the source *)
(* can begin or end inside a token: matching on tokens is matching on      *)
(* characters.                                                             *)
(***************************************************************************)
EXTENDS Integers, Sequences, FiniteSets, TLC

Q == "'"
BT == "[bt]"
SP == " "
NL == "[nl]"
CR == "[cr]"
WRAP == "[wrap]"

\* ---------------------------------------------------------------- strings

TokAt(s, i) == IF i \in 1..Len(s) THEN s[i] ELSE "[end]"

\* s[i..] starts with the tokens of lit
StartsAt(s, i, lit) == \A k \in 1..Len(lit) : TokAt(s, i + k - 1) = lit[k]

\* Python's (sub in s)
Contains(s, sub) == \E i \in 1..(Len(s) + 1) : StartsAt(s, i, sub)

\* the first index >= i of a token of stops, 0 when there is none
RECURSIVE FindTok(_, _, _)
FindTok(s, i, stops) ==
  IF i > Len(s) THEN 0
  ELSE IF s[i] \in stops THEN i
  ELSE FindTok(s, i + 1, stops)

\* Python's s.replace(old, new): leftmost, non-overlapping, one pass.  The
\* scan goes from one occurrence of old's first token to the next.
RECURSIVE ReplaceFrom(_, _, _, _)
ReplaceFrom(s, i, old, new) ==
  LET n == FindTok(s, i, {old[1]}) IN
    IF n = 0 THEN SubSeq(s, i, Len(s))
    ELSE IF StartsAt(s, n, old)
    THEN SubSeq(s, i, n - 1) \o new \o ReplaceFrom(s, n + Len(old), old, new)
    ELSE SubSeq(s, i, n) \o ReplaceFrom(s, n + 1, old, new)

Replace(s, old, new) == ReplaceFrom(s, 1, old, new)

\* ------------------------------------------------------ add_logger_import

LOGGER_IMPORT ==
  <<"import", SP, "{ logger } from", SP, Q, "@/lib/logger", Q, ";">>

\* content.split('\n'): the lines, one more than the line feeds
RECURSIVE SplitLines(_, _)
SplitLines(s, i) ==
  LET n == FindTok(s, i, {NL}) IN
    IF n = 0 THEN << SubSeq(s, i, Len(s)) >>
    ELSE << SubSeq(s, i, n - 1) >> \o SplitLines(s, n + 1)

\* '\n'.join(lines)
RECURSIVE JoinLines(_)
JoinLines(ls) ==
  IF Len(ls) = 0 THEN <<>>
  ELSE IF Len(ls) = 1 THEN ls[1]
  ELSE ls[1] \o <<NL>> \o JoinLines(Tail(ls))

Whitespace == {SP, CR, "[tab]"}

\* line.strip()
RECURSIVE Strip(_)
Strip(line) ==
  IF Len(line) = 0 THEN line
  ELSE IF line[1] \in Whitespace THEN Strip(Tail(line))
  ELSE IF line[Len(line)] \in Whitespace THEN Strip(SubSeq(line, 1, Len(line) - 1))
  ELSE line

\* line.strip().startswith('import ')
IsImportLine(line) == StartsAt(Strip(line), 1, <<"import", SP>>)

\* the index of the last import line, 0 when there is none (the source's -1)
LastImportIdx(ls) ==
  LET S == {i \in 1..Len(ls) : IsImportLine(ls[i])} IN
    IF S = {} THEN 0 ELSE CHOOSE i \in S : \A j \in S : j <= i

\* lines.insert(k + 1, x) in the source's 0-based indices: x follows line k
InsertAfter(ls, k, x) == SubSeq(ls, 1, k) \o <<x>> \o SubSeq(ls, k + 1, Len(ls))

AlreadyImported(content) == Contains(content, LOGGER_IMPORT)

\* add_logger_import without its check for the import already there
add_logger_import_unchecked(content) ==
  LET lines == SplitLines(content, 1)
      last_import_idx == LastImportIdx(lines)
  IN IF last_import_idx >= 1
     THEN JoinLines(InsertAfter(lines, last_import_idx, LOGGER_IMPORT))
     ELSE JoinLines(lines)

add_logger_import(content) ==
  IF AlreadyImported(content) THEN content
  ELSE LET lines == SplitLines(content, 1)
           last_import_idx == LastImportIdx(lines)
       IN IF last_import_idx >= 1
          THEN JoinLines(InsertAfter(lines, last_import_idx, LOGGER_IMPORT))
          ELSE JoinLines(lines)

\* ---------------------------------------------- migrate_console_statements

\* the list emojis: what follows the opening quote in each needle.  The
\* ninth entry of the source carries a space of its own.
emojis == << <<"[x]", SP>>, <<"[ok]", SP>>, <<"[no]", SP>>, <<"[memo]", SP>>,
             <<"[cycle]", SP>>, <<"[wrench]", SP>>, <<"[broom]", SP>>,
             <<"[chart]", SP>>, <<"[warn]", SP, SP>>, <<"[bin]", SP>>,
             <<"[lock]", SP>> >>

\* (an empty text has nothing to strip or to rewrite: asking for the length
\* first has each pass computed before the next one starts)
RECURSIVE StripEmojis(_, _)
StripEmojis(content, k) ==
  IF Len(content) = 0 \/ k > Len(emojis) THEN content
  ELSE StripEmojis(
         Replace(Replace(content, <<Q>> \o emojis[k], <<Q>>),
                 <<BT>> \o emojis[k], <<BT>>),
         k + 1)

\* The nine re.sub calls, in the source's order.  Each pattern is
\*   head  quote  ([^stop]+) suffix  quote  tail
\* with tail  ");"  |  ", error);"  |  ", ([^)]+));"  and each replacement is
\*   out  '  capture keep  '  tail'
Rules == <<
  [head |-> "console.error(", open |-> {Q}, suffix |-> <<":">>, tail |-> "error",
   out |-> "logger.error(", keep |-> <<>>, data |-> FALSE],
  [head |-> "console.error(", open |-> {Q}, suffix |-> <<>>, tail |-> "error",
   out |-> "logger.error(", keep |-> <<>>, data |-> FALSE],
  [head |-> "console.log(", open |-> {Q}, suffix |-> <<SP, "successfully", ":">>,
   tail |-> "expr", out |-> "logger.info(", keep |-> <<SP, "successfully">>,
   data |-> TRUE],
  [head |-> "console.log(", open |-> {Q}, suffix |-> <<SP, "successfully">>,
   tail |-> "none", out |-> "logger.info(", keep |-> <<SP, "successfully">>,
   data |-> FALSE],
  [head |-> "console.log(", open |-> {Q}, suffix |-> <<"...">>, tail |-> "none",
   out |-> "logger.debug(", keep |-> <<>>, data |-> FALSE],
  [head |-> "console.log(", open |-> {Q, BT}, suffix |-> <<>>, tail |-> "none",
   out |-> "logger.debug(", keep |-> <<>>, data |-> FALSE],
  [head |-> "console.log(", open |-> {Q}, suffix |-> <<>>, tail |-> "expr",
   out |-> "logger.debug(", keep |-> <<>>, data |-> FALSE],
  [head |-> "console.warn(", open |-> {Q}, suffix |-> <<>>, tail |-> "expr",
   out |-> "logger.warn(", keep |-> <<>>, data |-> FALSE],
  [head |-> "console.warn(", open |-> {Q}, suffix |-> <<>>, tail |-> "none",
   out |-> "logger.warn(", keep |-> <<>>, data |-> FALSE] >>

\* the tokens a character class stops at: [^']  [^bt']  [^)]
StopQuote(r) == IF r.open = {Q} THEN {Q} ELSE {Q, BT}
StopParen == {")", WRAP}

NoMatch == [ok |-> FALSE, last |-> 0, rep |-> <<>>]

\* The match of rule r that starts at s[i], if there is one.  The message
\* class cannot cross the closing quote and the expression class cannot
\* cross a ")", so the greedy match with backtracking is the only match.
Match(r, s, i) ==
  IF ~(TokAt(s, i) = r.head /\ TokAt(s, i + 1) \in r.open) THEN NoMatch
  ELSE
    LET q == FindTok(s, i + 2, StopQuote(r))
        c == q - Len(r.suffix)      \* where the suffix starts
    IN IF q = 0 \/ s[q] # s[i + 1] \/ c <= i + 2
          \/ ~StartsAt(s, c, r.suffix)
       THEN NoMatch
       ELSE
         LET cap == SubSeq(s, i + 2, c - 1)
             front == <<r.out, Q>> \o cap \o r.keep \o <<Q>>
         IN CASE r.tail = "none" ->
                   IF StartsAt(s, q + 1, <<")", ";">>)
                   THEN [ok |-> TRUE, last |-> q + 2,
                         rep |-> front \o <<")", ";">>]
                   ELSE NoMatch
              [] r.tail = "error" ->
                   IF StartsAt(s, q + 1, <<",", SP, "error", ")", ";">>)
                   THEN [ok |-> TRUE, last |-> q + 5,
                         rep |-> front \o <<",", SP, "error", SP, WRAP, ")", ";">>]
                   ELSE NoMatch
              [] OTHER ->
                   LET p == FindTok(s, q + 3, StopParen) IN
                     IF StartsAt(s, q + 1, <<",", SP>>) /\ p > q + 3
                        /\ s[p] = ")" /\ TokAt(s, p + 1) = ";"
                     THEN [ok |-> TRUE, last |-> p + 1,
                           rep |-> front \o <<",", SP>>
                                   \o (IF r.data THEN <<"{", SP, "data", ":", SP>> ELSE <<>>)
                                   \o SubSeq(s, q + 3, p - 1)
                                   \o (IF r.data THEN <<SP, "}">> ELSE <<>>)
                                   \o <<")", ";">>]
                     ELSE NoMatch

\* re.sub(pattern, replacement, content): leftmost matches, not overlapping.
\* A match can only start at the rule's head, so the scan goes from one head
\* to the next.
RECURSIVE SubFrom(_, _, _)
SubFrom(r, s, i) ==
  LET n == FindTok(s, i, {r.head}) IN
    IF n = 0 THEN SubSeq(s, i, Len(s))
    ELSE LET m == Match(r, s, n) IN
           IF m.ok THEN SubSeq(s, i, n - 1) \o m.rep \o SubFrom(r, s, m.last + 1)
           ELSE SubSeq(s, i, n) \o SubFrom(r, s, n + 1)

\* the general console.log rules ahead of the success rules
RuleOrderGeneralFirst == <<1, 2, 5, 6, 7, 3, 4, 8, 9>>

\* the order in which the source applies its rules
RuleOrder == <<1, 2, 3, 4, 5, 6, 7, 8, 9>>

RECURSIVE ApplyRules(_, _)
ApplyRules(content, k) ==
  IF Len(content) = 0 \/ k > Len(RuleOrder) THEN content
  ELSE ApplyRules(SubFrom(Rules[RuleOrder[k]], content, 1), k + 1)

migrate_console_statements(content) == ApplyRules(StripEmojis(content, 1), 1)

\* ------------------------------------------------------------ the files

\* A path is <<stem, suffix>>.  The source lists eleven paths under src/lib,
\* all of suffix .ts; two of them stand for the list here.
FILES_TO_PROCESS ==
  << <<"src/lib/leave-service", ".ts">>, <<"src/lib/pwa-cache", ".ts">> >>

\* Path.with_suffix: the stem kept, the suffix replaced
with_suffix(path, suffix) == <<path[1], suffix>>

backup_path(file_path) == with_suffix(file_path, ".ts.backup")

\* open(path, 'r', encoding='utf-8').read(): universal newlines, so "\r\n" and
\* a lone "\r" are read as "\n"
Decode(bytes) == Replace(Replace(bytes, <<CR, NL>>, <<NL>>), <<CR>>, <<NL>>)

\* open(path, 'w', encoding='utf-8').write(text): "\n" is written as
\* os.linesep, which is "\n" under the POSIX project directory of the source
Encode(text) == Replace(text, <<NL>>, <<NL>>)

\* the file system after path holds data
Store(files, path, data) ==
  [x \in (DOMAIN files) \cup {path} |-> IF x = path THEN data ELSE files[x]]

\* what a write that fails after open(path, 'w') has truncated the file can
\* leave in it: any prefix of the data
Prefixes(data) == {SubSeq(data, 1, n) : n \in 0..Len(data)}

\* the contents a listed file starts with
SampleFiles == {
  <<"x", ";", CR, NL>>,
  <<"import", SP, "x", ";", CR, NL, "console.log(", Q, "msg", Q, ")", ";", NL>>,
  <<"console.log(", Q, "[ok]", SP, "[ok]", SP, "msg", Q, ")", ";">> }

\* the failures injected in one behaviour
MaxFaults == 1

VARIABLES
  fs,                \* the file system: path -> bytes, for the paths that exist
  pc,                \* where main is
  idx,               \* the entry of FILES_TO_PROCESS the loop is at, from 1
  processed_count,
  original_content,  \* process_file's locals
  content,
  ret,               \* what process_file returned last
  out,               \* the status lines printed by this run
  summary,           \* the count the summary line printed, -1 before it
  faults,            \* failures injected so far
  pristine,          \* history: the file system before the first run
  entry_fs,          \* history: the file system when process_file was entered
  rewritten,         \* history: the entries whose file this run overwrote
  shape,             \* TransformSpec: the items the input text was built from
  applied,           \* TransformSpec: the functions applied so far, in order
  hist               \* TransformSpec: the input and the text after each one

dvars == <<fs, pc, idx, processed_count, original_content, content, ret, out,
           summary, faults, pristine, entry_fs, rewritten>>
tvars == <<shape, applied, hist>>
vars == <<dvars, tvars>>

N == Len(FILES_TO_PROCESS)
file_path == FILES_TO_PROCESS[idx]

Line(kind, why) == [kind |-> kind, file |-> idx, why |-> why]

Init ==
  /\ \E E \in SUBSET {FILES_TO_PROCESS[i] : i \in 1..N} :
       \E f \in [E -> SampleFiles] : fs = f
  /\ pristine = fs
  /\ entry_fs = fs
  /\ pc = "start"
  /\ idx = 0
  /\ processed_count = 0
  /\ original_content = <<>>
  /\ content = <<>>
  /\ ret = FALSE
  /\ out = <<>>
  /\ summary = -1
  /\ faults = 0
  /\ rewritten = {}
  /\ shape = <<>>
  /\ applied = <<>>
  /\ hist = <<>>

\* main, lines 145-150: os.chdir, the banner, processed_count = 0
Chdir ==
  /\ pc = "start"
  /\ pc' = "loop"
  /\ idx' = 1
  /\ processed_count' = 0
  /\ out' = <<>>
  /\ summary' = -1
  /\ rewritten' = {}
  /\ UNCHANGED <<fs, original_content, content, ret, faults, pristine, entry_fs>>
  /\ UNCHANGED tvars

\* os.chdir raises (the project directory is missing or cannot be entered):
\* nothing in main catches it
ChdirFails ==
  /\ pc = "start"
  /\ faults < MaxFaults
  /\ faults' = faults + 1
  /\ pc' = "crashed"
  /\ out' = <<>>
  /\ summary' = -1
  /\ rewritten' = {}
  /\ idx' = 0
  /\ processed_count' = 0
  /\ UNCHANGED <<fs, original_content, content, ret, pristine, entry_fs>>
  /\ UNCHANGED tvars

\* where the loop goes after a caught exception
AfterError == "loop"

\* every entry counted, whatever process_file returned
CountAfterAlways(returned, count) == count + 1

\* main, lines 154-155: if process_file(file_path): processed_count += 1
CountAfter(returned, count) == IF returned THEN count + 1 ELSE count

\* process_file's except branch: one error line, return False, next entry
Caught(why) ==
  /\ out' = Append(out, Line("error", why))
  /\ ret' = FALSE
  /\ processed_count' = CountAfter(ret', processed_count)
  /\ pc' = AfterError
  /\ idx' = idx + 1

\* main, lines 153 and 156-157: the path does not exist
NotFound ==
  /\ pc = "loop"
  /\ idx <= N
  /\ file_path \notin DOMAIN fs
  /\ out' = Append(out, Line("not found", "none"))
  /\ idx' = idx + 1
  /\ UNCHANGED <<fs, pc, processed_count, original_content, content, ret,
                 summary, faults, pristine, entry_fs, rewritten>>
  /\ UNCHANGED tvars

\* the comparison taken as always different
ChangedAlways(new, old) == TRUE

\* content != original_content
Changed(new, old) == new # old

\* process_file, lines 113-124 and 136-138: read, transform, compare
ReadFile ==
  /\ pc = "loop"
  /\ idx <= N
  /\ file_path \in DOMAIN fs
  /\ entry_fs' = fs
  /\ original_content' = Decode(fs[file_path])
  /\ content' = migrate_console_statements(add_logger_import(original_content'))
  /\ IF Changed(content', original_content')
     THEN /\ pc' = "backup"
          /\ UNCHANGED <<out, ret, idx, processed_count>>
     ELSE /\ out' = Append(out, Line("no changes", "none"))
          /\ ret' = FALSE
          /\ processed_count' = CountAfter(ret', processed_count)
          /\ idx' = idx + 1
          /\ pc' = "loop"
  /\ UNCHANGED <<fs, summary, faults, pristine, rewritten>>
  /\ UNCHANGED tvars

\* open or read raises (no permission, not UTF-8, ...)
ReadFails ==
  /\ pc = "loop"
  /\ idx <= N
  /\ file_path \in DOMAIN fs
  /\ faults < MaxFaults
  /\ faults' = faults + 1
  /\ entry_fs' = fs
  /\ Caught("read")
  /\ UNCHANGED <<fs, original_content, content, summary, pristine, rewritten>>
  /\ UNCHANGED tvars

\* the backup given the rewritten text
BackupDataRewritten == content

\* what line 128 writes to the backup
BackupData == original_content

\* the backup skipped
WriteBackupSkipped ==
  /\ pc = "backup"
  /\ pc' = "write"
  /\ UNCHANGED <<fs, idx, processed_count, original_content, content, ret, out,
                 summary, faults, pristine, entry_fs, rewritten>>
  /\ UNCHANGED tvars

\* process_file, lines 126-128
WriteBackup ==
  /\ pc = "backup"
  /\ fs' = Store(fs, backup_path(file_path), Encode(BackupData))
  /\ pc' = "write"
  /\ UNCHANGED <<idx, processed_count, original_content, content, ret, out,
                 summary, faults, pristine, entry_fs, rewritten>>
  /\ UNCHANGED tvars

\* the backup's open raises (nothing is touched), or its write or close does
\* (the backup holds a prefix)
WriteBackupFails ==
  /\ pc = "backup"
  /\ faults < MaxFaults
  /\ faults' = faults + 1
  /\ \/ fs' = fs
     \/ \E d \in Prefixes(Encode(BackupData)) :
          fs' = Store(fs, backup_path(file_path), d)
  /\ Caught("backup")
  /\ UNCHANGED <<original_content, content, summary, pristine, entry_fs,
                 rewritten>>
  /\ UNCHANGED tvars

\* process_file, lines 131-135, and main, line 155
WriteMain ==
  /\ pc = "write"
  /\ fs' = Store(fs, file_path, Encode(content))
  /\ out' = Append(out, Line("processed", "none"))
  /\ ret' = TRUE
  /\ processed_count' = CountAfter(ret', processed_count)
  /\ rewritten' = rewritten \cup {idx}
  /\ idx' = idx + 1
  /\ pc' = "loop"
  /\ UNCHANGED <<original_content, content, summary, faults, pristine, entry_fs>>
  /\ UNCHANGED tvars

WriteMainFails ==
  /\ pc = "write"
  /\ faults < MaxFaults
  /\ faults' = faults + 1
  /\ \/ fs' = fs
     \/ \E d \in Prefixes(Encode(content)) : fs' = Store(fs, file_path, d)
  /\ Caught("write")
  /\ UNCHANGED <<original_content, content, summary, pristine, entry_fs,
                 rewritten>>
  /\ UNCHANGED tvars

\* main, lines 159-160
Summary ==
  /\ pc = "loop"
  /\ idx > N
  /\ summary' = processed_count
  /\ pc' = "done"
  /\ UNCHANGED <<fs, idx, processed_count, original_content, content, ret, out,
                 faults, pristine, entry_fs, rewritten>>
  /\ UNCHANGED tvars

\* the tool is started again over the same files
Rerun ==
  /\ pc \in {"done", "crashed"}
  /\ pc' = "start"
  /\ UNCHANGED <<fs, idx, processed_count, original_content, content, ret, out,
                 summary, faults, pristine, entry_fs, rewritten>>
  /\ UNCHANGED tvars

Next ==
  \/ Chdir \/ ChdirFails \/ NotFound \/ ReadFile \/ ReadFails
  \/ WriteBackup \/ WriteBackupFails \/ WriteMain \/ WriteMainFails
  \/ Summary \/ Rerun

Spec == Init /\ [][Next]_vars
\* ------------------------------------------------- the driver's properties

Files == {FILES_TO_PROCESS[i] : i \in 1..N}
LastLine == out[Len(out)]
LastFile == FILES_TO_PROCESS[LastLine.file]

\* process_file has just returned (or main has printed "not found") for the
\* entry of the last status line
JustReturned == pc = "loop" /\ Len(out) > 0 /\ LastLine.file = idx - 1

\* the text process_file read on its last entry, and what the two transforms
\* make of it
TextRead == Decode(entry_fs[LastFile])
Transformed(text) == migrate_console_statements(add_logger_import(text))

\* C1: a step changes a listed file only when the backup at the .ts.backup
\* path already holds, whole, the text that was read from that file; and the
\* step in which the backup write fails leaves the file as it was.
C1_BackupBeforeOverwrite ==
  [][ /\ \A f \in Files :
           (f \in DOMAIN fs /\ fs'[f] # fs[f])
             => /\ backup_path(f) \in DOMAIN fs
                /\ fs[backup_path(f)] = Encode(original_content)
                /\ original_content = Decode(fs[f])
      /\ (Len(out') > Len(out) /\ out'[Len(out')].why = "backup")
           => fs'[file_path] = fs[file_path] ]_vars

\* C1's case: a main write failed part-way, after the backup was written
C1_Witness ==
  /\ JustReturned
  /\ LastLine.why = "write"
  /\ fs[LastFile] \notin {entry_fs[LastFile], Encode(content)}
  /\ fs[backup_path(LastFile)] = Encode(TextRead)

\* C2: when process_file returns for a file it could read, whose text the two
\* transforms change, and no write failed, the backup holds the text read,
\* the file holds the transformed text, and the result is True (the status
\* line is "processed").
C2_ChangedFileWritten ==
  (/\ JustReturned
   /\ LastLine.kind \notin {"not found", "error"}
   /\ Transformed(TextRead) # TextRead)
    => /\ LastLine.kind = "processed"
       /\ ret = TRUE
       /\ backup_path(LastFile) \in DOMAIN fs
       /\ fs[backup_path(LastFile)] = Encode(TextRead)
       /\ fs[LastFile] = Encode(Transformed(TextRead))

\* C2's case: a file with an import line and a console call, read with its
\* "\r\n", was backed up and rewritten
C2_Witness ==
  /\ JustReturned
  /\ LastLine.kind = "processed"
  /\ Contains(entry_fs[LastFile], <<CR, NL>>)
  /\ Contains(fs[LastFile], LOGGER_IMPORT)
  /\ Contains(fs[LastFile], <<"logger.debug(">>)

\* C3: when process_file returns for a file it could read, whose text the two
\* transforms leave as it is, nothing was written (no backup created or
\* changed, the file not written), the status line is "no changes" and the
\* result is False.
C3_UnchangedFileUntouched ==
  (/\ JustReturned
   /\ LastLine.kind # "not found"
   /\ LastLine.why # "read"
   /\ Transformed(TextRead) = TextRead)
    => /\ LastLine.kind = "no changes"
       /\ ret = FALSE
       /\ fs = entry_fs

\* C3's case: "no changes" for a file whose bytes are not the text read (it
\* has "\r\n"), with a backup of another file already on disk
C3_Witness ==
  /\ JustReturned
  /\ LastLine.kind = "no changes"
  /\ fs[LastFile] # Encode(TextRead)
  /\ \E f \in Files : backup_path(f) \in DOMAIN fs

\* C4: no error ends the run before the summary is printed.
C4_RunAlwaysCompletes == pc # "crashed"

\* C5: in a run of main every entry of the list is attempted exactly once,
\* in list order, and has one status line of a known kind: the lines so far
\* are those of the entries before the one in progress, and a run that has
\* ended has a line for every entry.
C5_EachEntryOnce ==
  /\ Len(out) = (IF idx = 0 THEN 0 ELSE idx - 1)
  /\ \A k \in 1..Len(out) :
       /\ out[k].file = k
       /\ out[k].kind \in {"processed", "no changes", "not found", "error"}
  /\ pc \in {"done", "crashed"} => Len(out) = N

\* C6: the summary's count is the number of entries whose file this run
\* backed up and overwrote, which are the entries reported "processed"; an
\* entry not found, unchanged or failed is not among them.
C6_CountIsChanged ==
  pc = "done" =>
    /\ summary = Cardinality(rewritten)
    /\ rewritten = {k \in 1..N : out[k].kind = "processed"}

C6_Witness ==
  /\ pc = "done"
  /\ summary = 1
  /\ \E k \in 1..N : out[k].kind = "not found"

\* C10: once a file's backup holds the content the file had before the tool
\* first rewrote it, no later step replaces it (stated here for behaviours
\* without any failed read or write, which the claim covers too).
C10_BackupKeepsOriginal ==
  [][ \A f \in Files :
        (/\ faults' = 0
         /\ backup_path(f) \in DOMAIN fs
         /\ fs[backup_path(f)] = Encode(Decode(pristine[f])))
          => fs'[backup_path(f)] = fs[backup_path(f)] ]_vars

\* ------------------------------------------- the two transforms on their own

\* how many emoji lead a message, how many items make a text, how many times
\* a transform is applied
MaxPrefix == 2
MaxItems == 3
MaxApply == 2

Item(kind, head, quote, prefix, body, arg) ==
  [kind |-> kind, head |-> head, quote |-> quote, prefix |-> prefix,
   body |-> body, arg |-> arg]

CallItem(head, quote, prefix, body, arg) ==
  Item("call", head, quote, prefix, body, arg)
LineItem(toks) == Item("line", "", "", <<>>, toks, <<>>)

EmojiUnits == { <<"[x]", SP>>, <<"[ok]", SP>> }

RECURSIVE PrefixSeqs(_)
PrefixSeqs(n) ==
  IF n = 0 THEN { <<>> }
  ELSE LET P == PrefixSeqs(n - 1) IN P \cup {u \o p : u \in EmojiUnits, p \in P}

Heads == {"console.error(", "console.log(", "console.warn("}
Bodies == { <<"msg">>, <<"msg", ":">>, <<"msg", SP, "successfully">>,
            <<"msg", SP, "successfully", ":">>, <<"msg", "...">> }
Args == { <<>>, <<"error">>, <<"x">>, <<"f(", "x", ")">> }

\* one call, of every head, quote, emoji prefix, message and argument
RichCalls ==
  {CallItem(h, q, p, b, a) :
     h \in Heads, q \in {Q, BT}, p \in PrefixSeqs(MaxPrefix), b \in Bodies,
     a \in Args}

\* the lines and calls longer texts are made of
BasicItems == {
  LineItem(<<"import", SP, "x", ";">>),
  LineItem(LOGGER_IMPORT),
  LineItem(<<"//", SP>> \o LOGGER_IMPORT),
  LineItem(<<"x", ";">>),
  CallItem("console.log(", Q, <<>>, <<"msg", SP, "successfully", ":">>, <<"x">>),
  CallItem("console.error(", Q, <<>>, <<"msg", ":">>, <<"error">>),
  CallItem("console.log(", Q, <<"[ok]", SP, "[ok]", SP>>, <<"msg">>, <<>>) }

ArgPart(c) == IF c.arg = <<>> THEN <<>> ELSE <<",", SP>> \o c.arg

Render(c) ==
  IF c.kind = "line" THEN c.body
  ELSE <<c.head, c.quote>> \o c.prefix \o c.body \o <<c.quote>> \o ArgPart(c)
       \o <<")", ";">>

\* the text of a sequence of items, one item a line
Text(items) == JoinLines([i \in 1..Len(items) |-> Render(items[i])])

IdleDriver ==
  /\ fs = <<>>
  /\ pristine = <<>>
  /\ entry_fs = <<>>
  /\ pc = "idle"
  /\ idx = 0
  /\ processed_count = 0
  /\ original_content = <<>>
  /\ content = <<>>
  /\ ret = FALSE
  /\ out = <<>>
  /\ summary = -1
  /\ faults = 0
  /\ rewritten = {}

TInit ==
  /\ shape \in {<<c>> : c \in RichCalls}
               \cup UNION {[1..k -> BasicItems] : k \in 0..MaxItems}
  /\ applied = <<>>
  /\ hist = <<Text(shape)>>
  /\ IdleDriver

ApplyImport ==
  /\ Len(applied) < MaxApply
  /\ applied' = Append(applied, "import")
  /\ hist' = Append(hist, add_logger_import(hist[Len(hist)]))
  /\ UNCHANGED <<shape, dvars>>

ApplyMigrate ==
  /\ Len(applied) < MaxApply
  /\ applied' = Append(applied, "migrate")
  /\ hist' = Append(hist, migrate_console_statements(hist[Len(hist)]))
  /\ UNCHANGED <<shape, dvars>>

TNext == ApplyImport \/ ApplyMigrate

TransformSpec == TInit /\ [][TNext]_vars

\* ------------------------------------------------ properties of the transforms

Occurrences(s, sub) ==
  Cardinality({i \in 1..Len(s) : StartsAt(s, i, sub)})

HasImportLine(text) ==
  LET ls == SplitLines(text, 1) IN \E i \in 1..Len(ls) : IsImportLine(ls[i])

Steps(name) == {k \in 1..Len(applied) : applied[k] = name}

\* C7 as the specification states it: whatever lines one application of
\* migrate_console_statements rewrote, a second application leaves as they
\* are, emoji stripping included.
C7_MigrateIdempotent ==
  \A k \in Steps("migrate") :
    (k + 1) \in Steps("migrate") =>
      LET a == SplitLines(hist[k], 1)
          b == SplitLines(hist[k + 1], 1)
          c == SplitLines(hist[k + 2], 1)
      IN  /\ Len(a) = Len(b)
          /\ Len(b) = Len(c)
          /\ \A i \in 1..Len(b) : a[i] # b[i] => c[i] = b[i]

\* C8: add_logger_import returns a text that already holds the logger import
\* unchanged; on a text with an import line, applying it to its own output
\* changes nothing; and it never inserts more than one logger import.
C8_ImportIdempotent ==
  \A k \in Steps("import") :
    /\ Contains(hist[k], LOGGER_IMPORT) => hist[k + 1] = hist[k]
    /\ (k > 1 /\ (k - 1) \in Steps("import") /\ HasImportLine(hist[k - 1]))
         => hist[k + 1] = hist[k]
    /\ Occurrences(hist[k + 1], LOGGER_IMPORT)
         <= Occurrences(hist[1], LOGGER_IMPORT) + 1

\* the import was inserted by the first application and the second is a no-op
C8_Witness ==
  /\ applied = <<"import", "import">>
  /\ HasImportLine(hist[1])
  /\ Occurrences(hist[2], LOGGER_IMPORT) = Occurrences(hist[1], LOGGER_IMPORT) + 1
  /\ hist[3] = hist[2]

EndsWithMore(m, suf) ==
  /\ Len(m) > Len(suf)
  /\ SubSeq(m, Len(m) - Len(suf) + 1, Len(m)) = suf

EndsWith(m, suf) ==
  /\ Len(m) >= Len(suf)
  /\ SubSeq(m, Len(m) - Len(suf) + 1, Len(m)) = suf

DropLast(m, n) == SubSeq(m, 1, Len(m) - n)

Logger(method, msg, rest) ==
  <<method, Q>> \o msg \o <<Q>> \o rest \o <<")", ";">>

ErrorRest == <<",", SP, "error", SP, WRAP>>
DataRest(arg) == <<",", SP, "{", SP, "data", ":", SP>> \o arg \o <<SP, "}">>

\* a second argument with no closing parenthesis in it
Bare(arg) == arg # <<>> /\ \A i \in 1..Len(arg) : arg[i] \notin StopParen

\* the message of a call once the listed emoji prefixes are gone
Message(c) == Tail(StripEmojis(<<c.quote>> \o c.prefix \o c.body, 1))

Stripped(c) ==
  <<c.head, c.quote>> \o Message(c) \o <<c.quote>> \o ArgPart(c) \o <<")", ";">>

\* what the rule table makes of one call
ExpectedCall(c) ==
  LET m == Message(c) IN
  IF c.head = "console.error(" /\ c.quote = Q /\ c.arg = <<"error">>
    THEN Logger("logger.error(",
                IF EndsWithMore(m, <<":">>) THEN DropLast(m, 1) ELSE m,
                ErrorRest)
  ELSE IF /\ c.head = "console.log(" /\ c.quote = Q /\ Bare(c.arg)
          /\ EndsWithMore(m, <<SP, "successfully", ":">>)
    THEN Logger("logger.info(", DropLast(m, 1), DataRest(c.arg))
  ELSE IF /\ c.head = "console.log(" /\ c.quote = Q /\ c.arg = <<>>
          /\ EndsWithMore(m, <<SP, "successfully">>)
    THEN Logger("logger.info(", m, <<>>)
  ELSE IF c.head = "console.log(" /\ c.arg = <<>>
    THEN Logger("logger.debug(",
                IF c.quote = Q /\ EndsWithMore(m, <<"...">>)
                  THEN DropLast(m, 1) ELSE m,
                <<>>)
  ELSE IF c.head = "console.log(" /\ c.quote = Q /\ Bare(c.arg)
    THEN Logger("logger.debug(", m, ArgPart(c))
  ELSE IF c.head = "console.warn(" /\ c.quote = Q /\ (c.arg = <<>> \/ Bare(c.arg))
    THEN Logger("logger.warn(", m, ArgPart(c))
  ELSE Stripped(c)

Expected(item) == IF item.kind = "line" THEN item.body ELSE ExpectedCall(item)

ExpectedText(items) == JoinLines([i \in 1..Len(items) |-> Expected(items[i])])

MigratedFirst == applied # <<>> /\ applied[1] = "migrate"

====
